---- MODULE Spec2Model ----
(***************************************************************************)
(* pvforecast.api.PVForecast: parameter validation, request construction,  *)
(* the single urlopen call with its except clauses, and _parse_json.       *)
(*                                                                         *)
(* Python values are tagged tuples (<<"int", 5>>, <<"NoneType">>, ...), so *)
(* that None and 0 are different values.  Strings that the code takes      *)
(* apart or re-encodes (the key, start, JSON strings) are tuples of        *)
(* one-character strings.                                                  *)
(***************************************************************************)
EXTENDS Integers, Sequences, FiniteSets, TLC

\* Longest JSON array the service answers with in the model.
MaxEntries == 2

BASE_URL == "http://www.pvforecast.cz/api/"

-----------------------------------------------------------------------------
(* Python values *)

None == <<"NoneType">>
PyInt(n) == <<"int", n>>
PyFloat(repr) == <<"float", repr>>
PyStr(chars) == <<"str", chars>>
PyList(items) == <<"list", items>>
PyDict(members) == <<"dict", members>>

\* A piece of an error message: literal text, or a formatted value.
Lit(s) == <<"raw", s>>

\* Outcome of evaluating Python code: a value, or a raised exception.
Return(v) == [ok |-> TRUE, cls |-> "", msg |-> <<>>, val |-> v]
Raise(c, m) == [ok |-> FALSE, cls |-> c, msg |-> m, val |-> None]

\* The exception classes involved and their base classes.
BaseOf(c) ==
    CASE c = "HTTPError" -> "URLError"
      [] c = "URLError" -> "OSError"
      [] c = "OSError" -> "Exception"
      [] c = "JSONDecodeError" -> "ValueError"
      [] c = "UnicodeDecodeError" -> "UnicodeError"
      [] c = "UnicodeError" -> "ValueError"
      [] c = "ValueError" -> "Exception"
      [] c = "IndexError" -> "LookupError"
      [] c = "KeyError" -> "LookupError"
      [] c = "LookupError" -> "Exception"
      [] c = "TypeError" -> "Exception"
      [] OTHER -> "BaseException"

RECURSIVE IsInstance(_, _)
IsInstance(c, base) ==
    IF c = base THEN TRUE
    ELSE IF c = "BaseException" THEN FALSE
    ELSE IsInstance(BaseOf(c), base)

-----------------------------------------------------------------------------
(* str() and urllib.parse.urlencode *)

Digit(d) == CASE d = 0 -> "0" [] d = 1 -> "1" [] d = 2 -> "2" [] d = 3 -> "3"
              [] d = 4 -> "4" [] d = 5 -> "5" [] d = 6 -> "6" [] d = 7 -> "7"
              [] d = 8 -> "8" [] d = 9 -> "9"

RECURSIVE IntToStr(_)
IntToStr(n) == IF n < 10 THEN <<Digit(n)>> ELSE IntToStr(n \div 10) \o <<Digit(n % 10)>>

\* str(v) as urlencode applies it to a non-string value.
StrOf(v) ==
    CASE v[1] = "int" -> IntToStr(v[2])
      [] v[1] = "float" -> v[2]
      [] v[1] = "str" -> v[2]

AlwaysSafe ==
    {"a","b","c","d","e","f","g","h","i","j","k","l","m","n","o","p","q","r","s",
     "t","u","v","w","x","y","z","0","1","2","3","4","5","6","7","8","9",
     "_", ".", "-", "~"}

\* quote_plus on one character: safe characters stay, a space becomes "+",
\* anything else is percent-encoded.
QuoteChar(c) ==
    IF c \in AlwaysSafe THEN <<c>>
    ELSE CASE c = " " -> <<"+">>
           [] c = "&" -> <<"%", "2", "6">>
           [] c = "+" -> <<"%", "2", "B">>
           [] c = "=" -> <<"%", "3", "D">>
           [] c = "%" -> <<"%", "2", "5">>

\* Variant: the values go into the query string as they are.
QuoteNothing(s) == s

RECURSIVE QuotePlus(_)
QuotePlus(s) == IF s = <<>> THEN <<>> ELSE QuoteChar(Head(s)) \o QuotePlus(Tail(s))

\* urlencode(params): name=value pairs in dict order, joined by "&".
RECURSIVE urlencode(_)
urlencode(params) ==
    IF params = <<>> THEN <<>>
    ELSE LET p == Head(params)
             item == QuotePlus(p[1]) \o <<"=">> \o QuotePlus(StrOf(p[2]))
         IN IF Len(params) = 1 THEN item
            ELSE item \o <<"&">> \o urlencode(Tail(params))

Name_key == <<"k","e","y">>
Name_lat == <<"l","a","t">>
Name_lon == <<"l","o","n">>
Name_forecast == <<"f","o","r","e","c","a","s","t">>
Name_format == <<"f","o","r","m","a","t">>
Name_type == <<"t","y","p","e">>
Name_number == <<"n","u","m","b","e","r">>
Name_dst == <<"d","s","t">>
Name_start == <<"s","t","a","r","t">>

Str_pv == <<"p","v">>
Str_json == <<"j","s","o","n">>
Str_hour == <<"h","o","u","r">>
Str_day == <<"d","a","y">>
Str_today == <<"t","o","d","a","y">>
Str_tomorrow == <<"t","o","m","o","r","r","o","w">>
Str_auto == <<"a","u","t","o">>

-----------------------------------------------------------------------------
(* The transport: what urllib.request.urlopen does with the one request *)

\* Response bodies are bytes: the UTF-8 encoding of a text, or bytes that are
\* not valid UTF-8.  A text is a JSON document (given by its syntax tree) or
\* text that is not JSON.
BadBytes == <<"badbytes">>
Utf8(text) == <<"utf8", text>>
JsonText(node) == <<"json", node>>
RawText(s) == <<"raw", s>>

\* bytes.decode(): the text, or UnicodeDecodeError.
decode(bytes) ==
    IF bytes[1] = "utf8" THEN Return(bytes[2])
    ELSE Raise("UnicodeDecodeError", <<Lit("'utf-8' codec can't decode")>>)

\* What urlopen meets: a 2xx response, an error status, or no connection.
NoReply == [o |-> "none", status |-> 0, reason |-> "", body |-> BadBytes]
Response(status, body) == [o |-> "response", status |-> status, reason |-> "OK", body |-> body]
HttpFailure(code, reason, body) == [o |-> "HTTPError", status |-> code, reason |-> reason, body |-> body]
NoConnection(reason) == [o |-> "URLError", status |-> 0, reason |-> reason, body |-> BadBytes]

\* urlopen(url): the response object, or HTTPError for an error status, or
\* URLError when the connection fails.
urlopen(url, net) ==
    CASE net.o = "response" -> Return(net)
      [] net.o = "HTTPError" -> Raise("HTTPError", <<Lit("HTTP Error"), Lit(net.reason)>>)
      [] net.o = "URLError" -> Raise("URLError", <<Lit("urlopen error"), Lit(net.reason)>>)

-----------------------------------------------------------------------------
(* json.loads and _parse_json *)

\* The Python value of a JSON syntax tree.
RECURSIVE ToPy(_)
ToPy(node) ==
    CASE node[1] = "null" -> None
      [] node[1] = "num" -> PyInt(node[2])
      [] node[1] = "str" -> PyStr(node[2])
      [] node[1] = "arr" -> PyList([i \in DOMAIN node[2] |-> ToPy(node[2][i])])
      [] node[1] = "obj" ->
            PyDict([i \in DOMAIN node[2] |-> <<node[2][i][1], ToPy(node[2][i][2])>>])

json_loads(data) ==
    IF data[1] = "json" THEN Return(ToPy(data[2]))
    ELSE Raise("JSONDecodeError", <<Lit("Expecting value")>>)

\* for entry in raw_data: the entries a Python value yields when iterated.
Iterate(v) ==
    CASE v[1] = "list" -> Return(v[2])
      [] v[1] = "dict" -> Return([i \in DOMAIN v[2] |-> PyStr(v[2][i][1])])
      [] v[1] = "str" -> Return([i \in DOMAIN v[2] |-> PyStr(<<v[2][i]>>)])
      [] OTHER -> Raise("TypeError", <<Lit("object is not iterable")>>)

\* entry[i] for i = 0, 1.
Subscript(v, i) ==
    CASE v[1] = "list" ->
            IF i < Len(v[2]) THEN Return(v[2][i + 1])
            ELSE Raise("IndexError", <<Lit("list index out of range")>>)
      [] v[1] = "str" ->
            IF i < Len(v[2]) THEN Return(PyStr(<<v[2][i + 1]>>))
            ELSE Raise("IndexError", <<Lit("string index out of range")>>)
      [] v[1] = "dict" -> Raise("KeyError", <<Lit("key")>>)
      [] OTHER -> Raise("TypeError", <<Lit("object is not subscriptable")>>)

HourlyForecast(timestamp, irradiance) ==
    [timestamp |-> timestamp, irradiance |-> irradiance]
\* Variant: total_irradiance=entry[1] or 0.
DailyForecastOrZero(timestamp, total_irradiance) ==
    [timestamp |-> timestamp,
     total_irradiance |-> IF total_irradiance = None THEN PyInt(0) ELSE total_irradiance]

DailyForecast(timestamp, total_irradiance) ==
    [timestamp |-> timestamp, total_irradiance |-> total_irradiance]
HourlyForecastData(forecasts) == <<"HourlyForecastData", forecasts>>

\* Variant: the forecasts collected in reverse order.
ComprehendReversed(entries, forecast_type) ==
    LET n == Len(entries)
        bad == {i \in DOMAIN entries :
                    ~Subscript(entries[i], 0).ok \/ ~Subscript(entries[i], 1).ok}
    IN IF bad = {}
       THEN Return([i \in DOMAIN entries |->
                IF forecast_type = Str_hour
                THEN HourlyForecast(Subscript(entries[n + 1 - i], 0).val,
                                    Subscript(entries[n + 1 - i], 1).val)
                ELSE DailyForecast(Subscript(entries[n + 1 - i], 0).val,
                                   Subscript(entries[n + 1 - i], 1).val)])
       ELSE LET i == CHOOSE j \in bad : \A k \in bad : j <= k
            IN IF ~Subscript(entries[i], 0).ok THEN Subscript(entries[i], 0)
               ELSE Subscript(entries[i], 1)

\* The list comprehension of _parse_json: entry[0] and entry[1] of every
\* entry in order; the first subscript that fails raises.
Comprehend(entries, forecast_type) ==
    LET bad == {i \in DOMAIN entries :
                    ~Subscript(entries[i], 0).ok \/ ~Subscript(entries[i], 1).ok}
    IN IF bad = {}
       THEN Return([i \in DOMAIN entries |->
                IF forecast_type = Str_hour
                THEN HourlyForecast(Subscript(entries[i], 0).val, Subscript(entries[i], 1).val)
                ELSE DailyForecast(Subscript(entries[i], 0).val, Subscript(entries[i], 1).val)])
       ELSE LET i == CHOOSE j \in bad : \A k \in bad : j <= k
            IN IF ~Subscript(entries[i], 0).ok THEN Subscript(entries[i], 0)
               ELSE Subscript(entries[i], 1)

_parse_json(data, forecast_type) ==
    LET raw_data == json_loads(data)
        entries == Iterate(raw_data.val)
        forecasts == Comprehend(entries.val, forecast_type)
    IN IF ~raw_data.ok THEN raw_data
       ELSE IF forecast_type \notin {Str_hour, Str_day}
       THEN Raise("ValueError", <<Lit("Invalid time_type. Should be 'hour' or 'day'.")>>)
       ELSE IF ~entries.ok THEN entries
       ELSE IF ~forecasts.ok THEN forecasts
       ELSE IF forecast_type = Str_hour THEN Return(HourlyForecastData(forecasts.val))
       ELSE Return(PyList(forecasts.val))

-----------------------------------------------------------------------------
(* get_hourly_irradiance and get_daily_irradiance *)

\* Variant: every status is read and parsed.
WithResponseAnyStatus(response, forecast_type) ==
    LET data == decode(response.body)
    IN IF ~data.ok THEN data ELSE _parse_json(data.val, forecast_type)

\* The body of the with statement: the status test, then decode and parse.
WithResponse(response, forecast_type) ==
    LET data == decode(response.body)
    IN IF response.status = 200
       THEN IF ~data.ok THEN data ELSE _parse_json(data.val, forecast_type)
       ELSE Raise("Exception", <<Lit("Failed to fetch data: HTTP "),
                                 PyStr(IntToStr(response.status))>>)

\* Variant: the URLError clause comes first, and HTTPError is a URLError.
ExceptClausesUrlErrorFirst(raised, e) ==
    LET msg == decode(e.body)
    IN IF IsInstance(raised.cls, "URLError")
       THEN Raise("Exception", <<Lit("Failed to reach server: "), Lit(e.reason)>>)
       ELSE IF IsInstance(raised.cls, "HTTPError")
       THEN IF ~msg.ok THEN msg
            ELSE Raise("Exception", <<Lit("Failed get data: "), Lit(e.reason),
                                      Lit(" - "), msg.val>>)
       ELSE raised

\* The except clauses, tried in their order on an exception raised in the try
\* block; e is the HTTPError or URLError that urlopen raised.
ExceptClauses(raised, e) ==
    LET msg == decode(e.body)
    IN IF IsInstance(raised.cls, "HTTPError")
       THEN IF ~msg.ok THEN msg
            ELSE Raise("Exception", <<Lit("Failed get data: "), Lit(e.reason),
                                      Lit(" - "), msg.val>>)
       ELSE IF IsInstance(raised.cls, "URLError")
       THEN Raise("Exception", <<Lit("Failed to reach server: "), Lit(e.reason)>>)
       ELSE raised

\* Variant: a failed attempt is made once more before giving up.
RequestWithRetry(url, forecast_type, net) ==
    LET response == urlopen(url, net)
        body == IF ~response.ok THEN response
                ELSE WithResponse(response.val, forecast_type)
    IN IF body.ok THEN [urls |-> <<url>>, out |-> body]
       ELSE [urls |-> <<url, url>>, out |-> ExceptClauses(body, net)]

\* The try statement of both methods.  The result also lists the URLs handed
\* to urlopen.
Request(url, forecast_type, net) ==
    LET response == urlopen(url, net)
        body == IF ~response.ok THEN response
                ELSE WithResponse(response.val, forecast_type)
    IN [urls |-> <<url>>,
        out |-> IF body.ok THEN body ELSE ExceptClauses(body, net)]

\* Variant: one list of lengths shared by both methods.
HourlyCheckSharedLengths(length, dst, start) ==
    IF length \notin {1, 2, 3, 24, 48, 72}
    THEN Raise("ValueError", <<Lit("Invalid length. Should be 24, 48 or 72.")>>)
    ELSE IF dst \notin {0, 1}
    THEN Raise("ValueError", <<Lit("Invalid dst. Should be 0 or 1.")>>)
    ELSE IF start \notin {Str_today, Str_tomorrow, Str_auto}
    THEN Raise("ValueError", <<Lit("Invalid start. Should be 'today', 'tomorrow', or 'auto'.")>>)
    ELSE Return(None)

\* The parameter checks, in the order the code makes them.
HourlyCheck(length, dst, start) ==
    IF length \notin {24, 48, 72}
    THEN Raise("ValueError", <<Lit("Invalid length. Should be 24, 48 or 72.")>>)
    ELSE IF dst \notin {0, 1}
    THEN Raise("ValueError", <<Lit("Invalid dst. Should be 0 or 1.")>>)
    ELSE IF start \notin {Str_today, Str_tomorrow, Str_auto}
    THEN Raise("ValueError", <<Lit("Invalid start. Should be 'today', 'tomorrow', or 'auto'.")>>)
    ELSE Return(None)

\* Variant: the daily checks raise a plain Exception.
DailyCheckPlainException(length, dst, start) ==
    IF length \notin {1, 2, 3}
    THEN Raise("Exception", <<Lit("Invalid length. Should be 1, 2 or 3.")>>)
    ELSE IF dst \notin {0, 1}
    THEN Raise("Exception", <<Lit("Invalid dst. Should be 0 or 1.")>>)
    ELSE IF start \notin {Str_today, Str_tomorrow, Str_auto}
    THEN Raise("Exception", <<Lit("Invalid start. Should be 'today', 'tomorrow', or 'auto'.")>>)
    ELSE Return(None)

DailyCheck(length, dst, start) ==
    IF length \notin {1, 2, 3}
    THEN Raise("ValueError", <<Lit("Invalid length. Should be 1, 2 or 3.")>>)
    ELSE IF dst \notin {0, 1}
    THEN Raise("ValueError", <<Lit("Invalid dst. Should be 0 or 1.")>>)
    ELSE IF start \notin {Str_today, Str_tomorrow, Str_auto}
    THEN Raise("ValueError", <<Lit("Invalid start. Should be 'today', 'tomorrow', or 'auto'.")>>)
    ELSE Return(None)

HourlyParams(key, lat, lon, length, dst, start) ==
    << <<Name_key, PyStr(key)>>, <<Name_lat, lat>>, <<Name_lon, lon>>,
       <<Name_forecast, PyStr(Str_pv)>>, <<Name_format, PyStr(Str_json)>>,
       <<Name_type, PyStr(Str_hour)>>, <<Name_number, PyInt(length)>>,
       <<Name_dst, PyInt(dst)>>, <<Name_start, PyStr(start)>> >>

DailyParams(key, lat, lon, length, dst, start) ==
    << <<Name_key, PyStr(key)>>, <<Name_lat, lat>>, <<Name_lon, lon>>,
       <<Name_forecast, PyStr(Str_pv)>>, <<Name_format, PyStr(Str_json)>>,
       <<Name_type, PyStr(Str_day)>>, <<Name_number, PyInt(length)>>,
       <<Name_dst, PyInt(dst)>>, <<Name_start, PyStr(start)>> >>

\* url = self.BASE_URL + "?" + urllib.parse.urlencode(params)
MakeUrl(params) == <<BASE_URL, "?">> \o urlencode(params)

HourlyCall(key, lat, lon, length, dst, start, net) ==
    LET check == HourlyCheck(length, dst, start)
    IN IF ~check.ok THEN [urls |-> <<>>, out |-> check]
       ELSE Request(MakeUrl(HourlyParams(key, lat, lon, length, dst, start)), Str_hour, net)

DailyCall(key, lat, lon, length, dst, start, net) ==
    LET check == DailyCheck(length, dst, start)
    IN IF ~check.ok THEN [urls |-> <<>>, out |-> check]
       ELSE Request(MakeUrl(DailyParams(key, lat, lon, length, dst, start)), Str_day, net)

-----------------------------------------------------------------------------
(* Inputs *)

Keys == { <<"t","e","s","t","_","k","e","y">>, <<"a","&","b","="," ","+","%">> }
Lats == { PyFloat(<<"5","0",".","0">>) }
Lons == { PyFloat(<<"-","1","4",".","5">>) }
Lengths == {1, 3, 24, 72, 12}
Dsts == {0, 1, 2}
Starts == { Str_auto, Str_tomorrow, <<"i","n","v","a","l","i","d">> }

T1 == <<"2","0","2","3","-","1","0","-","0","1">>
T2 == <<"2","0","2","3","-","1","0","-","0","2">>
Pair(ts, v) == <<"arr", << <<"str", ts>>, v >> >>
GoodEntries ==
    { Pair(T1, <<"num", 1000>>), Pair(T2, <<"num", 0>>), Pair(T2, <<"null">>) }
BadEntries ==
    { <<"num", 5>>,
      <<"arr", << <<"str", T1>> >> >>,
      <<"arr", << <<"str", T1>>, <<"num", 1000>>, <<"num", 7>> >> >> }
Arrays == { <<"arr", es>> : es \in UNION { [1..n -> GoodEntries \cup BadEntries] : n \in 0..MaxEntries } }
OtherDocs ==
    { <<"obj", << <<T1, <<"num", 1000>> >> >> >>,
      <<"obj", << << <<"a">>, <<"num", 1>> >> >> >>,
      <<"num", 5>> }
Bodies ==
    { Utf8(JsonText(d)) : d \in Arrays \cup OtherDocs }
        \cup { Utf8(RawText("<html>oops</html>")), BadBytes }
ErrorBodies == { Utf8(RawText("")), Utf8(RawText("<html>oops</html>")), BadBytes }

\* What the network can answer to one request.
NetOutcomes ==
    { Response(st, b) : st \in {200, 204}, b \in Bodies }
        \cup { HttpFailure(e[1], e[2], b) :
                 e \in { <<500, "Internal Server Error">>, <<404, "Not Found">> },
                 b \in ErrorBodies }
        \cup { NoConnection(r) : r \in {"Connection refused", "Name or service not known"} }

-----------------------------------------------------------------------------
(* State *)

VARIABLES
    api_key,    \* self.api_key
    given_key,  \* the key handed to __init__
    call,       \* the call that has just returned, or NoCall between calls
    prev        \* how the call before it ended

vars == <<api_key, given_key, call, prev>>

NoCall ==
    [pc |-> "idle", kind |-> "none", lat |-> None, lon |-> None, length |-> 0,
     dst |-> 0, start |-> <<>>, urls |-> <<>>, reply |-> NoReply, out |-> Return(None)]

\* What is kept of a finished call: whether a request went out, what the
\* network did, and the class of the error, if any.
Summary(c) ==
    [requests |-> Len(c.urls), reply |-> c.reply.o, ok |-> c.out.ok, cls |-> c.out.cls]

Init ==
    /\ given_key \in Keys
    /\ api_key = given_key
    /\ call = NoCall
    /\ prev = Summary(NoCall)

Returned(kind, lat, lon, length, dst, start, net, r) ==
    [pc |-> "returned", kind |-> kind, lat |-> lat, lon |-> lon, length |-> length,
     dst |-> dst, start |-> start, urls |-> r.urls,
     reply |-> IF r.urls = <<>> THEN NoReply ELSE net, out |-> r.out]

get_hourly_irradiance ==
    /\ call.pc = "idle"
    /\ \E lat \in Lats, lon \in Lons, length \in Lengths, dst \in Dsts, start \in Starts,
          net \in NetOutcomes :
          call' = Returned("hour", lat, lon, length, dst, start, net,
                           HourlyCall(api_key, lat, lon, length, dst, start, net))
    /\ UNCHANGED <<api_key, given_key, prev>>

get_daily_irradiance ==
    /\ call.pc = "idle"
    /\ \E lat \in Lats, lon \in Lons, length \in Lengths, dst \in Dsts, start \in Starts,
          net \in NetOutcomes :
          call' = Returned("day", lat, lon, length, dst, start, net,
                           DailyCall(api_key, lat, lon, length, dst, start, net))
    /\ UNCHANGED <<api_key, given_key, prev>>

\* The caller has its result or its exception and goes on.
CallerContinues ==
    /\ call.pc = "returned"
    /\ prev' = Summary(call)
    /\ call' = NoCall
    /\ UNCHANGED <<api_key, given_key>>

Next ==
    \/ get_hourly_irradiance
    \/ get_daily_irradiance
    \/ CallerContinues

Spec == Init /\ [][Next]_vars

-----------------------------------------------------------------------------
(* Vocabulary of the properties *)

Done == call.pc = "returned"
Failed == Done /\ ~call.out.ok

\* The permitted values, as the contract states them.
PermittedLength(kind) == IF kind = "hour" THEN {24, 48, 72} ELSE {1, 2, 3}
ValidArgs ==
    /\ call.length \in PermittedLength(call.kind)
    /\ call.dst \in {0, 1}
    /\ call.start \in {Str_today, Str_tomorrow, Str_auto}

\* The reply is status 200 with a JSON array whose entries are all
\* [timestamp string, number or null].
IsPair(node) ==
    /\ node[1] = "arr"
    /\ Len(node[2]) = 2
    /\ node[2][1][1] = "str"
    /\ node[2][2][1] \in {"num", "null"}
IsPairArray(body) ==
    /\ body[1] = "utf8"
    /\ body[2][1] = "json"
    /\ body[2][2][1] = "arr"
    /\ \A i \in DOMAIN body[2][2][2] : IsPair(body[2][2][2][i])
RawPairs == call.reply.body[2][2][2]
Answered200 == Done /\ ValidArgs /\ call.reply.o = "response" /\ call.reply.status = 200

\* C1: a length outside the set of the call's kind, a dst outside {0,1} or a
\* start outside {today, tomorrow, auto} makes either call raise ValueError
\* without handing anything to urlopen.
C1_InvalidParameterNoRequest ==
    (Done /\ ~ValidArgs) =>
        /\ ~call.out.ok
        /\ call.out.cls = "ValueError"
        /\ call.urls = <<>>
        /\ call.reply = NoReply

C1_Witness ==
    /\ Done /\ call.kind = "hour" /\ call.length = 1
    /\ call.dst = 1 /\ call.start = Str_auto
    /\ call.out.cls = "ValueError" /\ call.urls = <<>>

\* C2: an hourly call answered 200 with an array of N pairs returns an
\* HourlyForecastData of N forecasts, the i-th holding the first member of
\* the i-th pair as timestamp and the second as irradiance.
C2_HourlyOrderPreserved ==
    (Answered200 /\ call.kind = "hour" /\ IsPairArray(call.reply.body)) =>
        /\ call.out.ok
        /\ call.out.val[1] = "HourlyForecastData"
        /\ Len(call.out.val[2]) = Len(RawPairs)
        /\ \A i \in DOMAIN RawPairs :
              /\ call.out.val[2][i].timestamp = PyStr(RawPairs[i][2][1][2])
              /\ call.out.val[2][i].irradiance =
                    (IF RawPairs[i][2][2][1] = "null" THEN None
                     ELSE PyInt(RawPairs[i][2][2][2]))

C2_Witness ==
    /\ Answered200 /\ call.kind = "hour" /\ IsPairArray(call.reply.body)
    /\ Len(RawPairs) = 2
    /\ RawPairs[1] # RawPairs[2]
    /\ call.out.ok
    /\ call.out.val[2][1].irradiance = PyInt(1000)
    /\ call.out.val[2][2].irradiance = PyInt(0)

\* C3: a daily call answered 200 with an array of N pairs returns a list of
\* N DailyForecast in server order; total_irradiance is None exactly where
\* the pair's second member is null, and is that member otherwise.
C3_DailyNullIsNone ==
    (Answered200 /\ call.kind = "day" /\ IsPairArray(call.reply.body)) =>
        /\ call.out.ok
        /\ call.out.val[1] = "list"
        /\ Len(call.out.val[2]) = Len(RawPairs)
        /\ \A i \in DOMAIN RawPairs :
              /\ call.out.val[2][i].timestamp = PyStr(RawPairs[i][2][1][2])
              /\ (call.out.val[2][i].total_irradiance = None)
                    <=> (RawPairs[i][2][2][1] = "null")
              /\ RawPairs[i][2][2][1] = "num" =>
                    call.out.val[2][i].total_irradiance = PyInt(RawPairs[i][2][2][2])

C3_Witness ==
    /\ Answered200 /\ call.kind = "day" /\ IsPairArray(call.reply.body)
    /\ Len(RawPairs) = 2
    /\ call.out.ok
    /\ call.out.val[2][1].total_irradiance = None
    /\ call.out.val[2][2].total_irradiance = PyInt(0)

\* C4: an error status answered to a valid call makes it raise the remote
\* failure, an Exception "Failed get data: <reason> - <body>".
C4_StatusErrorIsRemoteFailure ==
    (Done /\ ValidArgs /\ call.reply.o = "HTTPError") =>
        /\ ~call.out.ok
        /\ call.out.cls = "Exception"
        /\ call.out.msg[1] = Lit("Failed get data: ")
        /\ \E i \in DOMAIN call.out.msg : call.out.msg[i] = Lit(call.reply.reason)

\* C5: a failed connection makes a valid call raise the transport failure,
\* an Exception "Failed to reach server: <reason>"; an error status is never
\* reported with that message.
TransportMessage(m) == m # <<>> /\ m[1] = Lit("Failed to reach server: ")
C5_TransportUnreachable ==
    /\ (Done /\ ValidArgs /\ call.reply.o = "URLError") =>
          /\ ~call.out.ok
          /\ call.out.cls = "Exception"
          /\ TransportMessage(call.out.msg)
          /\ \E i \in DOMAIN call.out.msg : call.out.msg[i] = Lit(call.reply.reason)
    /\ (Done /\ call.reply.o = "HTTPError") => ~TransportMessage(call.out.msg)

C5_Witness ==
    /\ Done /\ call.kind = "day" /\ call.reply.o = "URLError"
    /\ call.out.msg = <<Lit("Failed to reach server: "), Lit("Connection refused")>>

\* C6: a 200 answer whose body is a text that is not JSON, or JSON that is
\* not an array of pairs, makes the call raise the remote failure (a plain
\* Exception): no ValueError, no other class, no result.
C6_MalformedBodyIsRemoteFailure ==
    (Answered200 /\ call.reply.body[1] = "utf8" /\ ~IsPairArray(call.reply.body)) =>
        /\ ~call.out.ok
        /\ call.out.cls = "Exception"

\* The failure kind the contract assigns to a failed call, from its cause.
FailureKind(requests, reply) ==
    IF requests = 0 THEN "InvalidParameter"
    ELSE IF reply = "URLError" THEN "TransportUnreachable"
    ELSE "RemoteRequestFailed"

C8_AtMostOneRequest ==
    /\ prev.requests <= 1
    /\ Done =>
          /\ Len(call.urls) <= 1
          /\ (Len(call.urls) = 0) <=> ~ValidArgs
          /\ (Failed /\ ValidArgs) => Len(call.urls) = 1

C8_Witness ==
    /\ Failed /\ ValidArgs /\ call.reply.o = "URLError" /\ Len(call.urls) = 1
    /\ ~prev.ok /\ prev.requests = 1

\* C9 as stated: any 2xx answer with an array of pairs returns the records.
C9_AnySuccessStatusReturns ==
    (Done /\ ValidArgs /\ call.reply.o = "response" /\ IsPairArray(call.reply.body))
    => call.out.ok

RECURSIVE ParseInt(_)
ParseInt(chars) ==
    IF chars = <<>> THEN 0
    ELSE 10 * ParseInt(SubSeq(chars, 1, Len(chars) - 1))
            + (CHOOSE d \in 0..9 : Digit(d) = chars[Len(chars)])

\* C9 as the code has it: status 200 with an array of pairs returns one
\* record per pair; any other success status raises the Exception
\* "Failed to fetch data: HTTP <status>".
C9_Only200Returns ==
    /\ (Answered200 /\ IsPairArray(call.reply.body)) =>
          call.out.ok /\ Len(call.out.val[2]) = Len(RawPairs)
    /\ (Done /\ ValidArgs /\ call.reply.o = "response" /\ call.reply.status # 200) =>
          /\ ~call.out.ok
          /\ call.out.cls = "Exception"
          /\ call.out.msg[1] = Lit("Failed to fetch data: HTTP ")
          /\ ParseInt(call.out.msg[2][2]) = call.reply.status

C9_Witness ==
    /\ Done /\ ValidArgs /\ call.reply.o = "response" /\ call.reply.status = 204
    /\ IsPairArray(call.reply.body) /\ Len(RawPairs) = 1
    /\ call.out.cls = "Exception"

-----------------------------------------------------------------------------
(* The query string as the service reads it *)

RECURSIVE Split(_, _)
Split(s, sep) ==
    IF \A i \in DOMAIN s : s[i] # sep THEN <<s>>
    ELSE LET i == CHOOSE j \in DOMAIN s : s[j] = sep /\ \A k \in 1..(j - 1) : s[k] # sep
         IN <<SubSeq(s, 1, i - 1)>> \o Split(SubSeq(s, i + 1, Len(s)), sep)

PercentChar(h1, h2) ==
    CASE <<h1, h2>> = <<"2", "6">> -> "&"
      [] <<h1, h2>> = <<"2", "B">> -> "+"
      [] <<h1, h2>> = <<"3", "D">> -> "="
      [] <<h1, h2>> = <<"2", "5">> -> "%"
      [] <<h1, h2>> = <<"2", "0">> -> " "
      [] OTHER -> "?"

RECURSIVE UnquotePlus(_)
UnquotePlus(s) ==
    IF s = <<>> THEN <<>>
    ELSE IF Head(s) = "+" THEN <<" ">> \o UnquotePlus(Tail(s))
    ELSE IF Head(s) = "%" /\ Len(s) >= 3
    THEN <<PercentChar(s[2], s[3])>> \o UnquotePlus(SubSeq(s, 4, Len(s)))
    ELSE <<Head(s)>> \o UnquotePlus(Tail(s))

\* name=value items; the value is what follows the first "=".
ParseQs(query) ==
    LET items == Split(query, "&")
    IN [i \in DOMAIN items |->
            LET parts == Split(items[i], "=")
            IN <<UnquotePlus(parts[1]),
                 UnquotePlus(SubSeq(items[i], Len(parts[1]) + 2, Len(items[i])))>>]

Values(pairs, name) == {pairs[i][2] : i \in {j \in DOMAIN pairs : pairs[j][1] = name}}

\* C10: api_key stays the key given at construction, and the one URL of a
\* call is BASE_URL "?" and a query whose nine parameters read back as:
\* key the given key, lat and lon as passed, forecast pv, format json, type
\* hour for an hourly and day for a daily call, number the length, dst and
\* start as passed, whatever call came before.
C10_RequestCarriesArguments ==
    /\ api_key = given_key
    /\ (Done /\ call.urls # <<>>) =>
          LET url == call.urls[1]
              q == ParseQs(SubSeq(url, 3, Len(url)))
          IN /\ url[1] = BASE_URL
             /\ url[2] = "?"
             /\ Len(q) = 9
             /\ Values(q, Name_key) = {given_key}
             /\ Values(q, Name_lat) = {call.lat[2]}
             /\ Values(q, Name_lon) = {call.lon[2]}
             /\ Values(q, Name_forecast) = {Str_pv}
             /\ Values(q, Name_format) = {Str_json}
             /\ Values(q, Name_type) = {IF call.kind = "hour" THEN Str_hour ELSE Str_day}
             /\ {ParseInt(v) : v \in Values(q, Name_number)} = {call.length}
             /\ {ParseInt(v) : v \in Values(q, Name_dst)} = {call.dst}
             /\ Values(q, Name_start) = {call.start}

C10_Witness ==
    /\ Done /\ call.kind = "day" /\ Len(call.urls) = 1
    /\ call.dst = 0 /\ call.length = 3 /\ call.start = Str_tomorrow
    /\ given_key = <<"a","&","b","="," ","+","%">>
    /\ prev.requests = 1 /\ ~prev.ok

====
